---- MODULE Spec2Model ----
(***************************************************************************)
(* Model of analyzer/windows/lib/api/process.py: the Process class that    *)
(* owns an OS process handle and an OS thread handle, creates, resumes     *)
(* and injects target processes, and the session-wide first_process flag.  *)
(***************************************************************************)
EXTENDS Integers, Sequences, FiniteSets, TLC

\* ------------------------------------------------------------------ bounds
NumProcs == 2            \* Process objects of the session
MaxHandles == 4          \* handles the OS hands out before it refuses
MaxPid == 3              \* largest process id the OS uses
MaxPages == 4            \* pages in the address space of a dumped process
MaxFaults == 1           \* calls of one walk that fail

\* ------------------------------------------------------- program constants
NULL == 0                \* a null handle / an unknown id
None == -2               \* Python's None (falsy, and different from 0)
CurrentProcess == -1     \* the pseudo-handle KERNEL32.GetCurrentProcess()
SelfPid == 1             \* os.getpid(): the agent's own process
STILL_ACTIVE == 259
PageSize == 2            \* system_info.dwPageSize, in bytes
MinAddr == PageSize      \* system_info.lpMinimumApplicationAddress

Procs == 1..NumProcs
Pids == 1..MaxPid
Handles == 1..MaxHandles
InitialPids == {SelfPid, 2}      \* processes that exist when the agent starts

VARIABLES
    pid, h_process, thread_id, h_thread, suspended,  \* fields of each Process
    destroyed,       \* __del__ has run on the Process
    first_process,   \* class attribute Process.first_process
    osProc,          \* OS process table: "none", "alive" or "exited"
    osExit,          \* exit code of each exited OS process
    nextHandle,      \* next handle value the OS hands out
    osHandles,       \* OS handle table, with who acquired each handle and how
    config,          \* C:\<pid>.ini: its first-process value, "absent" if none
    everSuspExec,    \* history: execute(suspended=True) has succeeded on P
    resumedSince,    \* history: resume() succeeded since that execute
    lifecycle,       \* history: the calls made on P so far, while they follow
                     \* open(), close(), __del__; "other" once they do not
    anyInjected,     \* history: some inject() of the session returned success
    last,            \* last operation: name, Process, result, OS calls made
    ipc,             \* where each Process stands in an inject() run step by step
    firstproc,       \* the local `firstproc` of that inject()
    regions,         \* address space of the dumped process, lowest region first
    dpc,             \* where dump_memory() stands: "idle", "walk", "done", "raised"
    mem,             \* the cursor `mem` of dump_memory()
    nf,              \* the sink: "none", "open" or "closed"
    nfCloses,        \* how many times the sink has been closed
    sent,            \* what the sink received: <<address, bytes>> of each send
    faults           \* the OS calls and sends of the walk that failed: <<call, address>>

vars == <<pid, h_process, thread_id, h_thread, suspended, destroyed,
          first_process, osProc, osExit, nextHandle, osHandles,
          config, everSuspExec, resumedSince, lifecycle, anyInjected, last,
          ipc, firstproc, regions, dpc, mem, nf, nfCloses, sent, faults>>

FreeHandle == [state |-> "free", kind |-> "none", target |-> 0,
               by |-> 0, via |-> "none", closes |-> 0]

\* Python truth value of a handle or id field
Truthy(v) == v # 0 /\ v # None

\* The part of the state that open()/close() and the OS handle calls change
World == [hp |-> h_process, ht |-> h_thread, nh |-> nextHandle,
          hs |-> osHandles, calls |-> <<>>]

Commit(w) ==
    /\ h_process' = w.hp
    /\ h_thread' = w.ht
    /\ nextHandle' = w.nh
    /\ osHandles' = w.hs

Log(w, name, arg) == [w EXCEPT !.calls = Append(@, <<name, arg>>)]

\* The OS hands out a fresh handle on object `target`
NewHandle(w, kind, target, p, via) ==
    [w EXCEPT !.nh = @ + 1,
              !.hs[w.nh] = [state |-> "open", kind |-> kind, target |-> target,
                            by |-> p, via |-> via, closes |-> 0]]

\* KERNEL32.OpenProcess: a handle, or NULL when the OS refuses
OpenProcessOk(w, q, ok) == ok /\ q \in Pids /\ osProc[q] # "none" /\ w.nh <= MaxHandles
\* KERNEL32.OpenThread: thread id t is the main thread of process t
OpenThreadOk(w, t, ok) == ok /\ t \in Pids /\ osProc[t] = "alive" /\ w.nh <= MaxHandles

\* KERNEL32.CloseHandle(h): closing the pseudo-handle has no effect, its
\* result is pr; an open handle is closed (1); anything else fails (0).
CloseHandleRet(w, h, pr) ==
    IF h = CurrentProcess THEN pr
    ELSE IF h \in Handles /\ w.hs[h].state = "open" THEN 1 ELSE 0

CloseHandle(w, h) ==
    LET w1 == Log(w, "CloseHandle", h) IN
    IF h \in Handles
         THEN [w1 EXCEPT !.hs[h].state = IF @ = "free" THEN "free" ELSE "closed",
                         !.hs[h].closes = @ + 1]
         ELSE w1

NT_SUCCESS(val) == val >= 0

\* ---------------------------------------------------------------- open()
open_ret(w, p) ==
    (pid[p] # 0 \/ thread_id[p] # 0)
    \/ (pid[p] # 0 /\ ~Truthy(w.hp[p]))
    \/ (thread_id[p] # 0 /\ ~Truthy(w.ht[p]))

open_process(w, p, okP) ==
    IF pid[p] # 0 /\ ~Truthy(w.hp[p])
    THEN IF pid[p] = SelfPid
         THEN [w EXCEPT !.hp[p] = CurrentProcess]
         ELSE LET w1 == Log(w, "OpenProcess", pid[p]) IN
              IF OpenProcessOk(w, pid[p], okP)
              THEN [NewHandle(w1, "process", pid[p], p, "open") EXCEPT !.hp[p] = w.nh]
              ELSE [w1 EXCEPT !.hp[p] = NULL]
    ELSE w

open_thread(w, p, okT) ==
    IF thread_id[p] # 0 /\ ~Truthy(w.ht[p])
    THEN LET w1 == Log(w, "OpenThread", thread_id[p]) IN
         IF OpenThreadOk(w, thread_id[p], okT)
         THEN [NewHandle(w1, "thread", thread_id[p], p, "open") EXCEPT !.ht[p] = w.nh]
         ELSE [w1 EXCEPT !.ht[p] = NULL]
    ELSE w

open(w, p, okP, okT) == open_thread(open_process(w, p, okP), p, okT)

\* --------------------------------------------------------------- close()
close_keep_process(w, p) == w

close_clear_process(w, p) == [w EXCEPT !.hp[p] = None]

close_process(w, p) ==
    IF Truthy(w.hp[p]) THEN close_clear_process(CloseHandle(w, w.hp[p]), p) ELSE w

close_keep_thread(w, p) == w

close_clear_thread(w, p) == [w EXCEPT !.ht[p] = None]

close_thread(w, p) ==
    IF Truthy(w.ht[p]) THEN close_clear_thread(CloseHandle(w, w.ht[p]), p) ELSE w

close(w, p) == close_thread(close_process(w, p), p)

close_ret(w, p, pr) ==
    IF Truthy(w.ht[p])
    THEN NT_SUCCESS(CloseHandleRet(close_process(w, p), w.ht[p], pr))
    ELSE IF Truthy(w.hp[p])
         THEN NT_SUCCESS(CloseHandleRet(w, w.hp[p], pr))
         ELSE Truthy(w.hp[p]) \/ Truthy(w.ht[p])

\* --------------------------------------------------------------- __del__
del(w, p) ==
    LET w1 == IF Truthy(w.hp[p]) /\ w.hp[p] # CurrentProcess
              THEN CloseHandle(w, w.hp[p]) ELSE w
    IN IF Truthy(w1.ht[p]) THEN CloseHandle(w1, w1.ht[p]) ELSE w1

\* --------------------------------------------- exit_code() / is_alive()
\* KERNEL32.GetExitCodeProcess(h, &exit_code): exit_code starts as 0 and is
\* filled in only when h is a valid process handle.
GetExitCodeProcess(w, h) ==
    LET q == IF h = CurrentProcess THEN SelfPid
             ELSE IF h \in Handles /\ w.hs[h].state = "open" /\ w.hs[h].kind = "process"
                  THEN w.hs[h].target ELSE 0
    IN IF q = 0 THEN 0
       ELSE IF osProc[q] = "alive" THEN STILL_ACTIVE ELSE osExit[q]

exit_code_world(w, p, okP, okT) ==
    LET w1 == IF ~Truthy(w.hp[p]) THEN open(w, p, okP, okT) ELSE w
    IN Log(w1, "GetExitCodeProcess", w1.hp[p])

exit_code(w, p, okP, okT) ==
    GetExitCodeProcess(exit_code_world(w, p, okP, okT), exit_code_world(w, p, okP, okT).hp[p])

is_alive(w, p, okP, okT) == exit_code(w, p, okP, okT) = STILL_ACTIVE

\* ------------------------------------------------------------- is_64bit()
is_64bit_world(w, p, okP, okT) ==
    LET w1 == IF w.hp[p] = 0 THEN open(w, p, okP, okT) ELSE w
    IN Log(w1, "IsWow64Process", w1.hp[p])

\* ret: result of IsWow64Process, val: the process runs under WOW64,
\* machine64: platform.machine() ends with "64"
is_64bit(ret, val, machine64) == ret /\ ~val /\ machine64

\* The outcomes the OS can give a call: both when the call is made, a
\* failure only when it is not (the value is then unused).
Outcomes(called) == IF called THEN BOOLEAN ELSE {FALSE}

\* open() asks the OS for a process handle / a thread handle
AsksProcess(w, p) == pid[p] # 0 /\ ~Truthy(w.hp[p]) /\ pid[p] # SelfPid
AsksThread(w, p) == thread_id[p] # 0 /\ ~Truthy(w.ht[p])

Follows(sofar, name) ==
    IF sofar = "new" /\ name = "open" THEN "open"
    ELSE IF sofar = "open" /\ name = "close" THEN "open,close"
    ELSE IF sofar = "open,close" /\ name = "del" THEN "open,close,del"
    ELSE "other"

\* The call `name` on p returns ret after the OS calls logged in w
Record(name, p, ret, w) ==
    /\ last' = [op |-> name, p |-> p, ret |-> ret, calls |-> w.calls]
    /\ lifecycle' = [lifecycle EXCEPT ![p] = Follows(@, name)]
    /\ anyInjected' = (anyInjected \/ (name = "inject" /\ ret))

\* The state of the operations that are followed step by step
InjectState == <<ipc, firstproc>>
DumpState == <<regions, dpc, mem, nf, nfCloses, sent, faults>>
Stepwise == <<InjectState, DumpState>>

\* A call that runs from start to end in one step
Done(name, p, ret, w) == Record(name, p, ret, w) /\ UNCHANGED Stepwise

Fields == <<pid, thread_id, suspended>>
OsHandleTable == <<nextHandle, osHandles>>
Session == <<first_process, config>>
OsProcs == <<osProc, osExit>>
History == <<everSuspExec, resumedSince>>

Open(p) ==
    /\ ~destroyed[p]
    /\ \E okP \in Outcomes(AsksProcess(World, p)), okT \in Outcomes(AsksThread(World, p)) :
          LET w == open(World, p, okP, okT) IN
          /\ Commit(w)
          /\ Done("open", p, open_ret(World, p), w)
    /\ UNCHANGED <<Fields, destroyed, Session, OsProcs, History>>

Close(p) ==
    /\ ~destroyed[p]
    /\ \E pr \in {0, 1} :
          LET w == close(World, p) IN
          /\ Commit(w)
          /\ Done("close", p, close_ret(World, p, pr), w)
    /\ UNCHANGED <<Fields, destroyed, Session, OsProcs, History>>

\* The object is garbage collected; no operation can follow.
Del(p) ==
    /\ ~destroyed[p]
    /\ LET w == del(World, p) IN
          /\ Commit(w)
          /\ Done("del", p, FALSE, w)
    /\ destroyed' = [destroyed EXCEPT ![p] = TRUE]
    /\ UNCHANGED <<Fields, Session, OsProcs, History>>

\* -------------------------------------------------------------- execute()
CREATE_NEW_CONSOLE == 16
CREATE_SUSPENDED == 4

\* the process id the OS gives the next created process
FreshPid == CHOOSE q \in Pids : osProc[q] = "none" /\ \A r \in Pids : osProc[r] = "none" => q <= r

\* KERNEL32.CreateProcessA succeeds: the OS agrees, has a process id left and
\* room for the process and the thread handle
CreateProcessOk(ok) ==
    ok /\ (\E q \in Pids : osProc[q] = "none") /\ nextHandle + 1 <= MaxHandles

execute_flag_kept(p, susp) == suspended[p]

execute_flag(p, susp) == IF susp THEN TRUE ELSE suspended[p]

Execute(p) ==
    /\ ~destroyed[p]
    /\ \E accessible \in BOOLEAN, susp \in BOOLEAN :
        IF ~accessible
        THEN /\ Done("execute", p, FALSE, World)
             /\ UNCHANGED <<Fields, h_process, h_thread, nextHandle, osHandles,
                            OsProcs, History>>
        ELSE \E ok \in BOOLEAN :
             LET flags == CREATE_NEW_CONSOLE + (IF susp THEN CREATE_SUSPENDED ELSE 0)
                 w0 == Log(World, "CreateProcessA", flags)
             IN
             IF CreateProcessOk(ok)
             THEN LET q == FreshPid
                      w1 == NewHandle(w0, "process", q, p, "execute")
                      w2 == NewHandle(w1, "thread", q, p, "execute")
                      w3 == [w2 EXCEPT !.hp[p] = w0.nh, !.ht[p] = w1.nh]
                  IN /\ Commit(w3)
                     /\ pid' = [pid EXCEPT ![p] = q]
                     /\ thread_id' = [thread_id EXCEPT ![p] = q]
                     /\ suspended' = [suspended EXCEPT ![p] = execute_flag(p, susp)]
                     /\ osProc' = [osProc EXCEPT ![q] = "alive"]
                     /\ everSuspExec' = [everSuspExec EXCEPT ![p] = @ \/ susp]
                     /\ resumedSince' = [resumedSince EXCEPT ![p] = IF susp THEN FALSE ELSE @]
                     /\ Done("execute", p, TRUE, w3)
                     /\ UNCHANGED osExit
             ELSE /\ suspended' = [suspended EXCEPT ![p] = execute_flag(p, susp)]
                  /\ Done("execute", p, FALSE, w0)
                  /\ UNCHANGED <<pid, thread_id, h_process, h_thread, nextHandle,
                                 osHandles, OsProcs, History>>
    /\ UNCHANGED <<destroyed, Session>>

\* --------------------------------------------------------------- resume()
\* KERNEL32.ResumeThread(h) # -1
ResumeThreadOk(h, ok) ==
    ok /\ h \in Handles /\ osHandles[h].state = "open" /\ osHandles[h].kind = "thread"

resume_guard_missing(p) == TRUE

resume_guard(p) == suspended[p]

Resume(p) ==
    /\ ~destroyed[p]
    /\ IF ~resume_guard(p) \/ ~Truthy(h_thread[p])
       THEN /\ Done("resume", p, FALSE, World)
            /\ UNCHANGED <<suspended, History>>
       ELSE \E ok \in BOOLEAN :
            LET w == Log(World, "ResumeThread", h_thread[p]) IN
            IF ResumeThreadOk(h_thread[p], ok)
            THEN /\ suspended' = [suspended EXCEPT ![p] = FALSE]
                 /\ resumedSince' = [resumedSince EXCEPT ![p] = TRUE]
                 /\ Done("resume", p, TRUE, w)
                 /\ UNCHANGED everSuspExec
            ELSE /\ Done("resume", p, FALSE, w)
                 /\ UNCHANGED <<suspended, History>>
    /\ UNCHANGED <<pid, thread_id, h_process, h_thread, nextHandle, osHandles,
                   destroyed, Session, OsProcs>>

\* ----------------------------------------------------------- old_inject()
\* `if apc or self.suspended`: queue an APC rather than create a thread
use_apc_never(p, apc) == FALSE

use_apc(p, apc) == apc \/ suspended[p]

\* `if not KERNEL32.WriteProcessMemory(...)`: the write failed
write_failed_ignored(writeOk) == FALSE

write_failed(writeOk) == ~writeOk

\* allocOk, writeOk, stepOk: the OS lets VirtualAllocEx, WriteProcessMemory
\* and QueueUserAPC / CreateRemoteThread succeed. The handle of the remote
\* thread is a local that is closed at once: the OS has its value back and
\* the handle table is as before. Each abort is logged (log.error, log.info).
\* what the OS call logged last returned: non-zero (1) or zero (0)
Returned(w, ok) == Log(w, "returned", IF ok THEN 1 ELSE 0)

old_inject(w, p, apc, allocOk, writeOk, stepOk) ==
    LET crtOk == stepOk /\ w.nh <= MaxHandles
        w1 == Returned(Log(w, "VirtualAllocEx", w.hp[p]), allocOk)
        w2 == Returned(Log(w1, "WriteProcessMemory", w.hp[p]), writeOk)
        w3 == Returned(Log(w2, "QueueUserAPC", w.ht[p]), stepOk)
        w4 == Returned(Log(w2, "CreateRemoteThread", w.hp[p]), crtOk)
        w5 == Log(w4, "CloseHandle", w4.nh)
    IN
    IF ~allocOk THEN [w |-> Log(w1, "aborted", 1), ret |-> FALSE]
    ELSE IF write_failed(writeOk) THEN [w |-> Log(w2, "aborted", 2), ret |-> FALSE]
    ELSE IF use_apc(p, apc)
         THEN IF ~Truthy(w.ht[p]) THEN [w |-> Log(w2, "aborted", 3), ret |-> FALSE]
              ELSE IF stepOk THEN [w |-> w3, ret |-> TRUE]
                   ELSE [w |-> Log(w3, "aborted", 4), ret |-> FALSE]
         ELSE IF crtOk
              THEN [w |-> w5, ret |-> TRUE]
              ELSE [w |-> Log(w4, "aborted", 5), ret |-> FALSE]

\* --------------------------------------------------------------- inject()
\* what inject() leaves in Process.first_process after the configuration write
consume_toggle(fp) == ~fp

consume(fp) == IF fp THEN FALSE ELSE first_process

\* the guard `if not self.is_alive()`
alive_guard_missing(alive) == TRUE

alive_guard(alive) == alive

\* r: the world after the call, its result, and whether the configuration
\* file was written
InjectEnd(p, r) ==
    /\ Commit(r.w)
    /\ Done("inject", p, r.ret, r.w)
    /\ IF r.wrote
       THEN /\ config' = [config EXCEPT ![pid[p]] = IF first_process THEN "1" ELSE "0"]
            /\ first_process' = consume(first_process)
       ELSE UNCHANGED <<config, first_process>>

\* subprocess.call([loader, "inject", pid, thread_id, dll]) and its exit code
loader_ret_lenient(code) == code \in {0, 1}

loader_ret(code) == code = 0

\* os.path.exists("bin/loader_x64.exe") for a 64-bit target,
\* os.path.exists("bin/loader.exe") otherwise
loader_exists(w, is64, found) ==
    Log(w, IF is64 THEN "exists:loader_x64.exe" ELSE "exists:loader.exe",
        IF found THEN 1 ELSE 0)

\* without its loader a 64-bit target is not injected at all
no_fallback(is64) == is64

ExitCodes == {0, 1, 2}

\* results of the bitness query: a native 64-bit process, a WOW64 process,
\* a failed query, a 32-bit host
WowOutcomes == {<<TRUE, FALSE, TRUE>>, <<TRUE, TRUE, TRUE>>,
                <<FALSE, FALSE, TRUE>>, <<TRUE, FALSE, FALSE>>}

\* randomize_dll(): the library is copied under a random name; when the copy
\* fails the original path is used. Either path exists iff the library does.
randomize_dll(w, p) == Log(w, "copy", pid[p])

\* outcomes of VirtualAllocEx, WriteProcessMemory and the last step; a call
\* after the first failing one is not made
StepOutcomes == {<<FALSE, FALSE, FALSE>>, <<TRUE, FALSE, FALSE>>,
                 <<TRUE, TRUE, FALSE>>, <<TRUE, TRUE, TRUE>>}

\* Lines 388-413: the preconditions. Each outcome is the world after them
\* and whether the call goes on (go) or returns False.
InjectChecks(p) ==
    IF pid[p] = 0
    THEN {[w |-> World, go |-> FALSE]}
    ELSE UNION {
         LET w1 == exit_code_world(World, p, okP, okT) IN
         IF ~alive_guard(is_alive(World, p, okP, okT))
         THEN {[w |-> w1, go |-> FALSE]}
         ELSE {[w |-> randomize_dll(is_64bit_world(w1, p, okP2, okT2), p), go |-> dllExists] :
                  okP2 \in Outcomes(w1.hp[p] = 0 /\ AsksProcess(w1, p)),
                  okT2 \in Outcomes(w1.hp[p] = 0 /\ AsksThread(w1, p)),
                  dllExists \in BOOLEAN} :
            okP \in Outcomes(AsksProcess(World, p)),
            okT \in Outcomes(~Truthy(h_process[p]) /\ AsksThread(World, p))}

\* Lines 440-471: the injection itself, after the configuration write logged
\* in w4. Each outcome is the world after it and the result of inject().
InjectStrategy(p, w4) ==
    UNION {
        LET is64 == is_64bit(wow[1], wow[2], wow[3])
            w5 == loader_exists(w4, is64, loader)
        IN
        IF loader
        THEN {[w |-> Log(w5, "subprocess.call", code),
               ret |-> loader_ret(code), wrote |-> TRUE] : code \in ExitCodes}
        ELSE IF no_fallback(is64)
             THEN {[w |-> w5, ret |-> FALSE, wrote |-> TRUE]}
             ELSE {[w |-> old_inject(w5, p, thread_id[p] # 0 \/ suspended[p],
                                     ok[1], ok[2], ok[3]).w,
                    ret |-> old_inject(w5, p, thread_id[p] # 0 \/ suspended[p],
                                       ok[1], ok[2], ok[3]).ret,
                    wrote |-> TRUE] : ok \in StepOutcomes} :
           wow \in WowOutcomes, loader \in BOOLEAN}

\* inject() run by the only thread of the session
Inject(p) ==
    /\ ~destroyed[p]
    /\ \E c \in InjectChecks(p) :
          IF c.go
          THEN \E r \in InjectStrategy(p, Log(c.w, "config.write", pid[p])) :
                  InjectEnd(p, r)
          ELSE InjectEnd(p, [w |-> c.w, ret |-> FALSE, wrote |-> FALSE])
    /\ UNCHANGED <<Fields, destroyed, OsProcs, History>>

\* ------------------------------------- inject() run by concurrent threads
\* Each thread runs inject() on its own Process; the interpreter can switch
\* threads between any two statements of lines 415-438.
BeginStop(p, c) ==
    /\ Commit(c.w)
    /\ Record("inject", p, FALSE, c.w)
    /\ UNCHANGED <<config, ipc>>

\* open(config_path, "w") creates the file or empties it
BeginGo(p, w3) ==
    /\ Commit(w3)
    /\ config' = [config EXCEPT ![pid[p]] = "empty"]
    /\ ipc' = [ipc EXCEPT ![p] = "opened"]
    /\ UNCHANGED <<last, lifecycle, anyInjected>>

InjectBegin(p) ==
    /\ ~destroyed[p]
    /\ ipc[p] = "idle"
    /\ \E c \in InjectChecks(p) : IF c.go THEN BeginGo(p, c.w) ELSE BeginStop(p, c)
    /\ UNCHANGED <<Fields, destroyed, OsProcs, History, first_process, firstproc,
                   DumpState>>

\* firstproc = Process.first_process
InjectRead(p) ==
    /\ ipc[p] = "opened"
    /\ firstproc' = [firstproc EXCEPT ![p] = first_process]
    /\ ipc' = [ipc EXCEPT ![p] = "read"]
    /\ UNCHANGED <<Fields, h_process, h_thread, destroyed, Session, OsProcs, OsHandleTable,
                   History, last, lifecycle, anyInjected, DumpState>>

\* config.write("first-process=...")
InjectWrite(p) ==
    /\ ipc[p] = "read"
    /\ config' = [config EXCEPT ![pid[p]] = IF firstproc[p] THEN "1" ELSE "0"]
    /\ ipc' = [ipc EXCEPT ![p] = "written"]
    /\ UNCHANGED <<Fields, h_process, h_thread, destroyed, first_process, firstproc, OsProcs,
                   OsHandleTable, History, last, lifecycle, anyInjected, DumpState>>

\* if firstproc: Process.first_process = False
InjectClear(p) ==
    /\ ipc[p] = "written"
    /\ first_process' = consume(firstproc[p])
    /\ ipc' = [ipc EXCEPT ![p] = "cleared"]
    /\ UNCHANGED <<Fields, h_process, h_thread, destroyed, config, firstproc, OsProcs,
                   OsHandleTable, History, last, lifecycle, anyInjected, DumpState>>

FinishEnd(p, r) ==
    /\ Commit(r.w)
    /\ Record("inject", p, r.ret, r.w)
    /\ ipc' = [ipc EXCEPT ![p] = "idle"]
    /\ firstproc' = [firstproc EXCEPT ![p] = FALSE]

InjectFinish(p) ==
    /\ ipc[p] = "cleared"
    /\ \E r \in InjectStrategy(p, Log(World, "config.write", pid[p])) : FinishEnd(p, r)
    /\ UNCHANGED <<Fields, destroyed, Session, OsProcs, History, DumpState>>

\* Environment: a target process exits on its own.
OsExit(q) ==
    /\ q # SelfPid
    /\ osProc[q] = "alive"
    /\ osProc' = [osProc EXCEPT ![q] = "exited"]
    /\ osExit' = [osExit EXCEPT ![q] = 0]
    /\ UNCHANGED <<pid, h_process, thread_id, h_thread, suspended, destroyed,
                   first_process, nextHandle, osHandles, config,
                   everSuspExec, resumedSince, lifecycle, anyInjected, last,
                   Stepwise>>

\* ------------------------------------ operations that need the process handle
\* `if not self.h_process: self.open()`
open_if_not(w, p, okP, okT) == IF ~Truthy(w.hp[p]) THEN open(w, p, okP, okT) ELSE w
\* `if self.h_process == 0: self.open()`
open_if_zero(w, p, okP, okT) == IF w.hp[p] = 0 THEN open(w, p, okP, okT) ELSE w

\* the process a handle value designates for the OS, 0 when it designates none
TargetOf(w, h) ==
    IF h = CurrentProcess THEN SelfPid
    ELSE IF h \in Handles /\ w.hs[h].state = "open" /\ w.hs[h].kind = "process"
         THEN w.hs[h].target ELSE 0

\* An operation that leaves the OS process table alone returns
OpEnd(name, p, ret, w) ==
    /\ Commit(w)
    /\ Done(name, p, ret, w)
    /\ UNCHANGED <<Fields, destroyed, Session, OsProcs, History>>

\* exit_code(): the result recorded is whether the code is non-zero
ExitCode(p) ==
    /\ ~destroyed[p]
    /\ \E okP \in Outcomes(AsksProcess(World, p)),
          okT \in Outcomes(~Truthy(h_process[p]) /\ AsksThread(World, p)) :
          OpEnd("exit_code", p, exit_code(World, p, okP, okT) # 0,
                exit_code_world(World, p, okP, okT))

IsAlive(p) ==
    /\ ~destroyed[p]
    /\ \E okP \in Outcomes(AsksProcess(World, p)),
          okT \in Outcomes(~Truthy(h_process[p]) /\ AsksThread(World, p)) :
          OpEnd("is_alive", p, is_alive(World, p, okP, okT),
                exit_code_world(World, p, okP, okT))

\* NTDLL.NtQueryInformationProcess(h, class, ...): answered gives whether
\* the buffer came back filled as the caller expects
NtQuery(name, p, class) ==
    /\ ~destroyed[p]
    /\ \E okP \in Outcomes(AsksProcess(World, p)),
          okT \in Outcomes(~Truthy(h_process[p]) /\ AsksThread(World, p)),
          answered \in BOOLEAN :
          LET w1 == open_if_not(World, p, okP, okT)
              w2 == Log(w1, "NtQueryInformationProcess", w1.hp[p])
              w3 == Log(w2, "class", class)
          IN OpEnd(name, p, answered /\ TargetOf(w1, w1.hp[p]) # 0, w3)

\* get_filepath(): the result recorded is whether the path is non-empty
GetFilepath(p) == NtQuery("get_filepath", p, 27)
IsCritical(p) == NtQuery("is_critical", p, 29)
\* get_parent_pid(): the result recorded is whether a pid came back
GetParentPid(p) == NtQuery("get_parent_pid", p, 0)

Is64bit(p) ==
    /\ ~destroyed[p]
    /\ \E okP \in Outcomes(h_process[p] = 0 /\ AsksProcess(World, p)),
          okT \in Outcomes(h_process[p] = 0 /\ AsksThread(World, p)),
          wow \in WowOutcomes :
          LET w1 == is_64bit_world(World, p, okP, okT) IN
          OpEnd("is_64bit", p,
                is_64bit(wow[1] /\ TargetOf(w1, w1.hp[p]) # 0, wow[2], wow[3]), w1)

\* set_terminate_event(): the event exists when the monitor created it in
\* the target; its handle is closed before the call returns
set_terminate_event(w, p, okP, okT, evOk) ==
    LET w1 == open_if_zero(w, p, okP, okT)
        w2 == Log(w1, "OpenEventA", pid[p])
        w3 == Log(w2, "SetEvent", w2.nh)
        w4 == Log(w3, "CloseHandle", w2.nh)
        w5 == Log(w4, "Sleep", 500)
    IN IF evOk /\ w1.nh <= MaxHandles THEN w5 ELSE w2

SetTerminateEvent(p) ==
    /\ ~destroyed[p]
    /\ \E okP \in Outcomes(h_process[p] = 0 /\ AsksProcess(World, p)),
          okT \in Outcomes(h_process[p] = 0 /\ AsksThread(World, p)),
          evOk \in BOOLEAN :
          OpEnd("set_terminate_event", p, FALSE,
                set_terminate_event(World, p, okP, okT, evOk))

\* terminate(): the event first, then KERNEL32.TerminateProcess(h_process, 1)
kill_then_signal(w, p, okP, okT, evOk) ==
    set_terminate_event(Log(w, "TerminateProcess", w.hp[p]), p, okP, okT, evOk)

signal_then_kill(w, p, okP, okT, evOk) ==
    LET w1 == set_terminate_event(w, p, okP, okT, evOk)
    IN Log(w1, "TerminateProcess", w1.hp[p])

\* KERNEL32.TerminateProcess succeeds on a handle of a running process
TerminateProcessOk(w, h, ok) ==
    ok /\ TargetOf(w, h) # 0 /\ osProc[TargetOf(w, h)] = "alive"

Terminate(p) ==
    /\ ~destroyed[p]
    /\ \E okP \in Outcomes(h_process[p] = 0 /\ AsksProcess(World, p)),
          okT \in Outcomes(h_process[p] = 0 /\ AsksThread(World, p)) :
          LET w1 == open_if_zero(World, p, okP, okT) IN
          \E okP2 \in Outcomes(w1.hp[p] = 0 /\ AsksProcess(w1, p)),
             okT2 \in Outcomes(w1.hp[p] = 0 /\ AsksThread(w1, p)),
             evOk \in BOOLEAN, ok \in BOOLEAN :
             LET w2 == signal_then_kill(w1, p, okP2, okT2, evOk)
                 q == TargetOf(w2, w2.hp[p])
                 done == TerminateProcessOk(w2, w2.hp[p], ok)
             IN /\ Commit(w2)
                /\ Done("terminate", p, done, w2)
                /\ osProc' = IF done THEN [osProc EXCEPT ![q] = "exited"] ELSE osProc
                /\ osExit' = IF done THEN [osExit EXCEPT ![q] = 1] ELSE osExit
                \* ending the agent's own process ends every Process object
                /\ destroyed' = IF done /\ q = SelfPid
                                THEN [r \in Procs |-> TRUE] ELSE destroyed
    /\ UNCHANGED <<Fields, Session, History>>

\* ----------------------------------------------------------- dump_memory()
\* The address space of the target: regions of whole pages, one after the
\* other from MinAddr. A region is a run of pages with the same attributes:
\* committed (MEM_COMMIT) or not, and its type.
Kinds == {[committed |-> TRUE, type |-> "image"],
          [committed |-> TRUE, type |-> "private"],
          [committed |-> FALSE, type |-> "private"],    \* reserved
          [committed |-> FALSE, type |-> "none"]}       \* free
Regions == {[pages |-> n, committed |-> k.committed, type |-> k.type] :
               n \in 1..MaxPages, k \in Kinds}
SameKind(r1, r2) == r1.committed = r2.committed /\ r1.type = r2.type

\* the address spaces of exactly n pages
RECURSIVE LayoutsOf(_)
LayoutsOf(n) ==
    IF n = 0 THEN {<<>>}
    ELSE UNION {{<<r>> \o l : l \in {t \in LayoutsOf(n - r.pages) :
                                        t = <<>> \/ ~SameKind(r, t[1])}} :
                   r \in {x \in Regions : x.pages <= n}}

Layouts == UNION {LayoutsOf(n) : n \in 1..MaxPages}

RECURSIVE PagesBelow(_, _)
PagesBelow(layout, i) == IF i = 1 THEN 0 ELSE PagesBelow(layout, i - 1) + layout[i - 1].pages

Base(layout, i) == MinAddr + PageSize * PagesBelow(layout, i)
End(layout, i) == Base(layout, i) + PageSize * layout[i].pages
\* system_info.lpMaximumApplicationAddress: the last address of the last region
MaxAddr(layout) == End(layout, Len(layout)) - 1
RegionAt(layout, a) == CHOOSE i \in DOMAIN layout : Base(layout, i) <= a /\ a < End(layout, i)

\* mbi.State & MEM_COMMIT and mbi.Type & (MEM_IMAGE | MEM_MAPPED | MEM_PRIVATE)
dumpable_any(r) == TRUE

dumpable(r) == r.committed /\ r.type \in {"image", "mapped", "private"}

\* the cursor after a failed VirtualQueryEx
after_failed_query_same(a) == a

after_failed_query(a) == a + PageSize

\* the cursor after a region that is not streamed: the `else` of line 522
after_skipped_same(a) == a

after_skipped(a) == a + PageSize

\* KERNEL32.VirtualQueryEx(h, a): RegionSize is what is left of the region
\* from the page of a on
RegionSize(layout, a) == End(layout, RegionAt(layout, a)) - a

\* the results a call of the walk can have
MayFail == IF Cardinality(faults) < MaxFaults THEN BOOLEAN ELSE {TRUE}

DumpFrame == <<Fields, destroyed, Session, OsProcs, History, InjectState, regions>>

\* Lines 477-499: the preconditions, get_system_info() and the connection
\* to the sink, which NetlogFile() opens or raises on
DumpStart(p) ==
    /\ ~destroyed[p]
    /\ dpc = "idle"
    /\ IF pid[p] = 0
       THEN /\ Record("dump_memory", p, FALSE, World)
            /\ UNCHANGED <<h_process, h_thread, OsHandleTable, dpc, mem, nf>>
       ELSE \E okP \in Outcomes(AsksProcess(World, p)),
               okT \in Outcomes(~Truthy(h_process[p]) /\ AsksThread(World, p)) :
            LET w1 == exit_code_world(World, p, okP, okT) IN
            /\ Commit(w1)
            /\ IF ~is_alive(World, p, okP, okT)
               THEN /\ Record("dump_memory", p, FALSE, w1)
                    /\ UNCHANGED <<dpc, mem, nf>>
               ELSE \E connected \in BOOLEAN :
                    /\ dpc' = IF connected THEN "walk" ELSE "raised"
                    /\ nf' = IF connected THEN "open" ELSE "none"
                    /\ mem' = MinAddr
                    /\ UNCHANGED <<last, lifecycle, anyInjected>>
    /\ UNCHANGED <<DumpFrame, nfCloses, sent, faults>>

\* One turn of `while mem < max_addr`
DumpStep(p) ==
    /\ dpc = "walk"
    /\ mem < MaxAddr(regions)
    /\ \E queried \in MayFail :
       \E read \in IF queried /\ dumpable(regions[RegionAt(regions, mem)])
                   THEN MayFail ELSE {FALSE} :
       \E delivered \in IF read THEN MayFail ELSE {FALSE} :
          LET r == regions[RegionAt(regions, mem)] IN
          IF ~queried
          THEN /\ mem' = after_failed_query(mem)
               /\ faults' = faults \cup {<<"VirtualQueryEx", mem>>}
               /\ UNCHANGED <<dpc, sent>>
          ELSE IF ~dumpable(r)
          THEN /\ mem' = after_skipped(mem)
               /\ UNCHANGED <<dpc, sent, faults>>
          ELSE IF ~read
          THEN /\ mem' = mem + RegionSize(regions, mem)
               /\ faults' = faults \cup {<<"ReadProcessMemory", mem>>}
               /\ UNCHANGED <<dpc, sent>>
          ELSE IF ~delivered
          \* nf.sock.sendall raises: the exception leaves dump_memory()
          THEN /\ dpc' = "raised"
               /\ faults' = faults \cup {<<"sendall", mem>>}
               /\ UNCHANGED <<mem, sent>>
          ELSE /\ sent' = Append(sent, <<mem, RegionSize(regions, mem)>>)
               /\ mem' = mem + RegionSize(regions, mem)
               /\ UNCHANGED <<dpc, faults>>
    /\ UNCHANGED <<DumpFrame, h_process, h_thread, OsHandleTable, nf, nfCloses,
                   last, lifecycle, anyInjected>>

\* Lines 525-529: the walk is over, nf.close(), return True
DumpEnd(p) ==
    /\ dpc = "walk"
    /\ ~(mem < MaxAddr(regions))
    /\ nf' = "closed"
    /\ nfCloses' = nfCloses + 1
    /\ dpc' = "done"
    /\ Record("dump_memory", p, TRUE, World)
    /\ UNCHANGED <<DumpFrame, h_process, h_thread, OsHandleTable, mem, sent, faults>>

\* ------------------------------------------------------------ initial states
InitCore ==
    /\ h_process = [p \in Procs |-> 0]
    /\ h_thread = [p \in Procs |-> 0]
    /\ destroyed = [p \in Procs |-> FALSE]
    /\ first_process = TRUE
    /\ osProc = [q \in Pids |-> IF q \in InitialPids THEN "alive" ELSE "none"]
    /\ osExit = [q \in Pids |-> 0]
    /\ nextHandle = 1
    /\ osHandles = [h \in Handles |-> FreeHandle]
    /\ config = [q \in Pids |-> "absent"]
    /\ everSuspExec = [p \in Procs |-> FALSE]
    /\ resumedSince = [p \in Procs |-> FALSE]
    /\ lifecycle = [p \in Procs |-> "new"]
    /\ anyInjected = FALSE
    /\ last = [op |-> "init", p |-> 0, ret |-> FALSE, calls |-> <<>>]
    /\ ipc = [p \in Procs |-> "idle"]
    /\ firstproc = [p \in Procs |-> FALSE]
    /\ dpc = "idle"
    /\ mem = 0
    /\ nf = "none"
    /\ nfCloses = 0
    /\ sent = <<>>
    /\ faults = {}

\* No process is dumped
InitRest == InitCore /\ regions = <<>>

\* The Process object whose life cycle Spec follows; the others stay unused.
Tested == {CHOOSE p \in Procs : TRUE}

\* Process(pid, thread_id): handles default to 0, suspended to False
Init ==
    /\ pid \in {f \in [Procs -> {0} \cup InitialPids] : \A p \in Procs \ Tested : f[p] = 0}
    /\ thread_id \in {f \in [Procs -> {0, 2}] : \A p \in Procs \ Tested : f[p] = 0}
    /\ suspended = [p \in Procs |-> FALSE]
    /\ InitRest

Next ==
    \/ \E p \in Tested : Open(p)
    \/ \E p \in Tested : Close(p)
    \/ \E p \in Tested : Del(p)
    \/ \E p \in Tested : Execute(p)
    \/ \E p \in Tested : Resume(p)
    \/ \E q \in Pids : OsExit(q)

Spec == Init /\ [][Next]_vars

\* A session in which Process objects built for known ids are injected:
\* Process(pid=...)
InitInject ==
    /\ pid \in [Procs -> {0} \cup InitialPids]
    /\ thread_id = [p \in Procs |-> 0]
    /\ suspended = [p \in Procs |-> FALSE]
    /\ InitRest

NextInject ==
    \/ \E p \in Procs : Inject(p)
    \/ \E q \in Pids : OsExit(q)

SpecInject == InitInject /\ [][NextInject]_vars

\* One Process built with any of its ids and flags, then injected:
\* Process(pid=..., thread_id=..., suspended=...)
InitStrategy ==
    /\ pid \in {f \in [Procs -> {0} \cup InitialPids] : \A p \in Procs \ Tested : f[p] = 0}
    /\ thread_id \in {f \in [Procs -> {0} \cup InitialPids] : \A p \in Procs \ Tested : f[p] = 0}
    /\ suspended \in {f \in [Procs -> BOOLEAN] : \A p \in Procs \ Tested : ~f[p]}
    /\ InitRest

NextStrategy ==
    \/ \E p \in Tested : Inject(p)
    \/ \E q \in Pids : OsExit(q)

SpecStrategy == InitStrategy /\ [][NextStrategy]_vars

\* One Process built for known ids and driven through the operations that
\* need its process handle
InitOps ==
    /\ pid \in {f \in [Procs -> {0} \cup InitialPids] : \A p \in Procs \ Tested : f[p] = 0}
    /\ thread_id \in {f \in [Procs -> {0, 2}] : \A p \in Procs \ Tested : f[p] = 0}
    /\ suspended = [p \in Procs |-> FALSE]
    /\ InitRest

NextOps ==
    \/ \E p \in Tested : Open(p)
    \/ \E p \in Tested : Close(p)
    \/ \E p \in Tested : ExitCode(p)
    \/ \E p \in Tested : IsAlive(p)
    \/ \E p \in Tested : GetFilepath(p)
    \/ \E p \in Tested : IsCritical(p)
    \/ \E p \in Tested : GetParentPid(p)
    \/ \E p \in Tested : Is64bit(p)
    \/ \E p \in Tested : SetTerminateEvent(p)
    \/ \E p \in Tested : Terminate(p)
    \/ \E q \in Pids : OsExit(q)

SpecOps == InitOps /\ [][NextOps]_vars

\* A session with two threads that each inject their own Process
Threads == {p \in Procs : p <= 2}

InitConc ==
    /\ pid \in {f \in [Procs -> {0} \cup InitialPids] : \A p \in Procs \ Threads : f[p] = 0}
    /\ thread_id = [p \in Procs |-> 0]
    /\ suspended = [p \in Procs |-> FALSE]
    /\ InitRest

NextConc ==
    \/ \E p \in Threads : InjectBegin(p)
    \/ \E p \in Threads : InjectRead(p)
    \/ \E p \in Threads : InjectWrite(p)
    \/ \E p \in Threads : InjectClear(p)
    \/ \E p \in Threads : InjectFinish(p)
    \/ \E q \in Pids : OsExit(q)

SpecConc == InitConc /\ [][NextConc]_vars

\* One Process, built for the id of a target if for any, is dumped once
InitDump ==
    /\ pid \in {f \in [Procs -> {0} \cup (InitialPids \ {SelfPid})] : \A p \in Procs \ Tested : f[p] = 0}
    /\ thread_id = [p \in Procs |-> 0]
    /\ suspended = [p \in Procs |-> FALSE]
    /\ regions \in Layouts
    /\ InitCore

NextDump ==
    \/ \E p \in Tested : DumpStart(p)
    \/ \E p \in Tested : DumpStep(p)
    \/ \E p \in Tested : DumpEnd(p)
    \/ \E q \in Pids : OsExit(q)

SpecDump == InitDump /\ [][NextDump]_vars

\* The thread that runs dump_memory() keeps running: every call it makes
\* is a blocking call that returns. The walk never looks at whether the
\* target still runs, so the target is left running here.
NextWalk ==
    \/ \E p \in Tested : DumpStart(p)
    \/ \E p \in Tested : DumpStep(p)
    \/ \E p \in Tested : DumpEnd(p)

SpecDumpFair ==
    /\ InitDump
    /\ [][NextWalk]_vars
    /\ WF_vars(\E p \in Tested : DumpStep(p))
    /\ WF_vars(\E p \in Tested : DumpEnd(p))

TypeOK ==
    /\ \A p \in Procs : h_process[p] \in {NULL, None, CurrentProcess} \cup Handles
    /\ \A p \in Procs : h_thread[p] \in {NULL, None} \cup Handles
    /\ nextHandle \in 1..(MaxHandles + 1)

Range(s) == {s[i] : i \in DOMAIN s}
Called(name) == \E c \in Range(last.calls) : c[1] = name
Held(p) == Truthy(h_process[p]) \/ Truthy(h_thread[p])
ProcessFields == <<pid, thread_id, h_process, h_thread, suspended>>
AcquiredBy(p) == {h \in Handles : osHandles[h].by = p}

\* ----------------------------------------------------------------- C1
\* C1: after open(), close() and destruction, in this order, the Process
\* holds no handle and every handle it acquired has been closed exactly
\* once: none twice, none left open.
C1_OpenCloseDel ==
    \A p \in Procs :
        lifecycle[p] = "open,close,del" =>
            /\ ~Held(p)
            /\ \A h \in AcquiredBy(p) :
                  osHandles[h].closes = 1 /\ osHandles[h].state = "closed"

C1_Witness ==
    \E p \in Procs :
        /\ lifecycle[p] = "open,close,del"
        /\ Cardinality(AcquiredBy(p)) = 2
        /\ last.op = "del" /\ last.calls = <<>>

\* ----------------------------------------------------------------- C2
\* C2: no operation of Process passes the current-process pseudo-handle to
\* CloseHandle.
C2_PseudoHandleNeverClosed ==
    <<"CloseHandle", CurrentProcess>> \notin Range(last.calls)

\* ----------------------------------------------------------------- C3
\* C3: open() returns true only if every handle it had to acquire is held
\* afterwards: the process handle when the pid is known, the thread handle
\* when the thread id is known.
C3_OpenTrueOnlyIfHeld ==
    \A p \in Procs :
        (last.op = "open" /\ last.p = p /\ last.ret) =>
            /\ pid[p] # 0 => Truthy(h_process[p])
            /\ thread_id[p] # 0 => Truthy(h_thread[p])

\* ----------------------------------------------------------------- C4
\* C4: close() with no handle held makes no CloseHandle call, returns false
\* and changes nothing; close() with a handle held returns true, has closed
\* every held handle and leaves both handle fields cleared.
C4_CloseStep(p) ==
    /\ ~Held(p) =>
          /\ ~last'.ret
          /\ last'.calls = <<>>
          /\ UNCHANGED <<ProcessFields, nextHandle, osHandles>>
    /\ Held(p) =>
          /\ last'.ret
          /\ ~Held(p)'
          /\ \A h \in {h_process[p], h_thread[p]} \cap Handles :
                osHandles'[h].state = "closed"
          /\ Len(last'.calls) = Cardinality({h \in {h_process[p], h_thread[p]} : Truthy(h)})

C4_CloseIdempotent == [][\A p \in Procs : Close(p) => C4_CloseStep(p)]_vars

\* a repeated close(): the earlier one cleared the fields, this one did nothing
C4_Witness ==
    /\ last.op = "close" /\ ~last.ret /\ last.calls = <<>>
    /\ h_process[last.p] = None /\ h_thread[last.p] = None

\* ----------------------------------------------------------------- C5
\* C5: right after a successful execute(suspended=True) the process is alive
\* and the suspended flag is set; from then on the flag is clear only if a
\* resume() has succeeded since that execute.
CreatedSuspended(calls) ==
    <<"CreateProcessA", CREATE_NEW_CONSOLE + CREATE_SUSPENDED>> \in Range(calls)

C5_Step(p) ==
    /\ (Execute(p) /\ last'.ret /\ CreatedSuspended(last'.calls)) =>
          /\ suspended'[p]
          /\ is_alive(World, p, FALSE, FALSE)'
    /\ (everSuspExec'[p] /\ ~suspended'[p]) => resumedSince'[p]

C5_SuspendedUntilResumed == [][\A p \in Procs : C5_Step(p)]_vars

C5_Witness ==
    \E p \in Procs :
        /\ everSuspExec[p] /\ ~suspended[p] /\ resumedSince[p]
        /\ last.op = "resume" /\ last.ret

\* ----------------------------------------------------------------- C6
\* C6: resume() on a Process whose suspended flag is clear fails, calls
\* ResumeThread not at all and leaves pid, thread id, both handles and the
\* flag as they were.
C6_ResumeNotSuspended ==
    [][\A p \in Procs :
         (Resume(p) /\ ~suspended[p]) =>
             /\ ~last'.ret
             /\ \A c \in Range(last'.calls) : c[1] # "ResumeThread"
             /\ UNCHANGED ProcessFields]_vars

\* the thread handle is there, only the flag is missing
C6_Witness ==
    /\ last.op = "resume" /\ ~last.ret /\ last.calls = <<>>
    /\ ~suspended[last.p] /\ Truthy(h_thread[last.p])

\* ----------------------------------------------------------------- C7
\* C7: a failing execute() returns false and leaves pid, thread id, both
\* handles and the suspended flag as they were.
C7_FailedExecuteKeepsState ==
    [][\A p \in Procs : (Execute(p) /\ ~last'.ret) => UNCHANGED ProcessFields]_vars

\* ----------------------------------------------------------------- C8
\* C8: first_process only ever goes from true to false: once false it is
\* never true again, so it changes at most once.
C8_FirstProcessOnce == [][first_process' => first_process]_vars

\* two processes have their configuration written and the flag is consumed
C8_Witness ==
    /\ ~first_process
    /\ Cardinality({q \in Pids : config[q] # "absent"}) >= 2

\* ----------------------------------------------------------------- C9
\* C9: the first inject() of the session to return success has written
\* first-process=1 for its process, and every later successful one
\* first-process=0, whatever inject() calls failed before.
C9_FirstInjectedIsFirst ==
    [][\A p \in Procs :
         (Inject(p) /\ last'.ret) =>
             config'[pid[p]] = (IF anyInjected THEN "0" ELSE "1")]_vars

\* ---------------------------------------------------------------- C10
\* C10: inject() on a Process with no pid, or whose process is not alive,
\* fails and writes no configuration file, leaves first_process alone,
\* copies no library and runs no loader and no injection primitive.
InjectionCalls == {"copy", "config.write", "subprocess.call", "VirtualAllocEx",
                   "WriteProcessMemory", "QueueUserAPC", "CreateRemoteThread"}

C10_InjectPreconditions ==
    [][\A p \in Procs :
         ((pid[p] = 0 \/ osProc[pid[p]] # "alive") /\ Inject(p)) =>
             /\ ~last'.ret
             /\ UNCHANGED <<config, first_process>>
             /\ \A c \in Range(last'.calls) : c[1] \notin InjectionCalls]_vars

C10_Witness ==
    /\ last.op = "inject" /\ ~last.ret
    /\ pid[last.p] # 0 /\ osProc[pid[last.p]] = "exited"
    /\ Truthy(h_process[last.p])
    /\ config[pid[last.p]] = "absent" /\ first_process

\* ---------------------------------------------------------------- C11
InjectPassed == last.op = "inject" /\ Called("config.write")
LoaderFound ==
    \E c \in Range(last.calls) :
        c[1] \in {"exists:loader_x64.exe", "exists:loader.exe"} /\ c[2] = 1
Target64 == Called("exists:loader_x64.exe")
ApcChosen(p) == thread_id[p] # 0 \/ suspended[p]
Strategies == {"subprocess.call", "QueueUserAPC", "CreateRemoteThread"}
Primitives == {"VirtualAllocEx", "WriteProcessMemory", "QueueUserAPC", "CreateRemoteThread"}
StrategyChoice ==
    /\ Called("QueueUserAPC") => ApcChosen(last.p)
    /\ Called("CreateRemoteThread") => ~ApcChosen(last.p)

\* C11 as stated: with no loader for the target's bitness, 32-bit or 64-bit,
\* inject() injects in-process, by APC when a thread id is known or the
\* process is suspended and by a remote thread otherwise, and every inject()
\* that passes the preconditions attempts exactly one strategy.
C11_FallbackForAnyBitness ==
    InjectPassed =>
        /\ ~LoaderFound => Called("VirtualAllocEx")
        /\ StrategyChoice
        /\ Called("subprocess.call") # Called("VirtualAllocEx")

\* C11 (amended): with no loader.exe for a 32-bit target inject() injects
\* in-process, by APC when a thread id is known or the process is suspended
\* and by a remote thread otherwise; with no loader_x64.exe for a 64-bit
\* target it attempts no strategy and fails; no inject() attempts more than
\* one strategy.
C11_FallbackFor32Bit ==
    InjectPassed =>
        /\ (~LoaderFound /\ ~Target64) =>
              Called("VirtualAllocEx") /\ ~Called("subprocess.call")
        /\ (~LoaderFound /\ Target64) =>
              /\ ~last.ret
              /\ \A c \in Range(last.calls) : c[1] \notin Strategies \cup Primitives
        /\ StrategyChoice
        /\ ~(Called("subprocess.call") /\ Called("VirtualAllocEx"))
        /\ ~(Called("QueueUserAPC") /\ Called("CreateRemoteThread"))

\* an APC is queued on the thread of a process that has no loader
C11_Witness ==
    /\ InjectPassed /\ ~LoaderFound /\ ~Target64
    /\ Called("QueueUserAPC") /\ last.ret

\* ---------------------------------------------------------------- C12
\* C12: when the loader for the target's bitness is there, inject() runs it,
\* uses no in-process primitive, and returns success exactly when the
\* loader exits with 0: exit code 1 and any other code give failure.
C12_LoaderDelegation ==
    (last.op = "inject" /\ LoaderFound) =>
        /\ Called("subprocess.call")
        /\ \A c \in Range(last.calls) : c[1] \notin Primitives
        /\ last.ret <=> <<"subprocess.call", 0>> \in Range(last.calls)

C12_Witness ==
    /\ last.op = "inject" /\ LoaderFound /\ Target64
    /\ <<"subprocess.call", 1>> \in Range(last.calls)
    /\ ~last.ret

\* ---------------------------------------------------------------- C17
\* C17: the configuration file of a pid is written before any injection
\* step for it, and no later operation changes a file once written.
StrategyBeforeConfig(calls) ==
    \E i \in DOMAIN calls :
        /\ calls[i][1] \in Strategies \cup Primitives
        /\ \A j \in 1..i : calls[j][1] # "config.write"

C17_ConfigWrittenOnce ==
    [][/\ \A q \in Pids : config[q] # "absent" => config'[q] = config[q]
       /\ ~StrategyBeforeConfig(last'.calls)]_vars

\* ---------------------------------------------------------------- C20
\* C20: in-process injection allocates, then writes, then queues the APC or
\* creates the thread; the first step that fails, or a missing thread
\* handle, ends it with no further step and inject() fails; inject()
\* succeeds only when every step returned success.
IsStep(c) == c[1] \in Primitives \cup {"returned", "aborted"}
StepShape(c) ==
    IF c[1] = "returned" THEN (IF c[2] = 1 THEN "ok" ELSE "failed") ELSE c[1]
Steps == SelectSeq(last.calls, IsStep)
Shape == [i \in DOMAIN Steps |-> StepShape(Steps[i])]
CompleteRuns ==
    {<<"VirtualAllocEx", "ok", "WriteProcessMemory", "ok", "QueueUserAPC", "ok">>,
     <<"VirtualAllocEx", "ok", "WriteProcessMemory", "ok", "CreateRemoteThread", "ok">>}
AbortedRuns ==
    {<<"VirtualAllocEx", "failed", "aborted">>,
     <<"VirtualAllocEx", "ok", "WriteProcessMemory", "failed", "aborted">>,
     <<"VirtualAllocEx", "ok", "WriteProcessMemory", "ok", "aborted">>,
     <<"VirtualAllocEx", "ok", "WriteProcessMemory", "ok", "QueueUserAPC", "failed", "aborted">>,
     <<"VirtualAllocEx", "ok", "WriteProcessMemory", "ok", "CreateRemoteThread", "failed", "aborted">>}

C20_FirstFailureAborts ==
    (last.op = "inject" /\ Called("VirtualAllocEx")) =>
        /\ Shape \in CompleteRuns \cup AbortedRuns
        /\ last.ret <=> Shape \in CompleteRuns
        /\ Shape \in AbortedRuns => last.calls[Len(last.calls)][1] = "aborted"
        /\ (Shape \in AbortedRuns /\ Shape[Len(Shape) - 1] = "ok") =>
              (ApcChosen(last.p) /\ ~Truthy(h_thread[last.p]))

\* the APC could not be queued: the two steps before it ran, nothing after
C20_Witness ==
    /\ last.op = "inject" /\ ~last.ret
    /\ Shape = <<"VirtualAllocEx", "ok", "WriteProcessMemory", "ok",
                 "QueueUserAPC", "failed", "aborted">>

\* ---------------------------------------------------------------- C16
Index(calls, name) == {i \in DOMAIN calls : calls[i][1] = name}

\* C16: terminate() first tries to open and signal the termination event of
\* the pid and only then calls TerminateProcess, once, as its last OS call
\* and whether or not the event could be opened; a process that terminate()
\* ended has exit code 1.
C16_SignalThenTerminate ==
    last.op = "terminate" =>
        /\ Index(last.calls, "TerminateProcess") = {Len(last.calls)}
        /\ Index(last.calls, "OpenEventA") # {}
        /\ \A i \in Index(last.calls, "OpenEventA") \cup Index(last.calls, "SetEvent") :
              i < Len(last.calls)
        /\ \A i \in Index(last.calls, "SetEvent") :
              \E j \in Index(last.calls, "OpenEventA") : j < i
        /\ last.ret => (osProc[pid[last.p]] = "exited" /\ osExit[pid[last.p]] = 1)

\* the event was signaled and the process then ended by force
C16_Witness ==
    /\ last.op = "terminate" /\ last.ret
    /\ Called("SetEvent")
    /\ pid[last.p] # SelfPid

\* ---------------------------------------------------------------- C19
HandleOps == {"exit_code", "is_alive", "get_filepath", "is_critical",
              "get_parent_pid", "is_64bit", "set_terminate_event", "terminate"}
HandleCalls == {"GetExitCodeProcess", "NtQueryInformationProcess",
                "IsWow64Process", "TerminateProcess"}

\* C19: an operation that needs the process handle, called on a Process
\* with a known pid whose handle is absent (never opened, or cleared by
\* close()), opens the handle before its OS call and hands the OS no
\* cleared handle.
C19_OpensOnDemand ==
    [][\A p \in Procs :
          (/\ last'.op \in HandleOps /\ last'.p = p
           /\ pid[p] # 0 /\ ~Truthy(h_process[p])) =>
              /\ h_process'[p] # None
              /\ \A c \in Range(last'.calls) : c[1] \in HandleCalls => c[2] # None]_vars

\* ---------------------------------------------------------------- C18
\* C18: when the threads of a session run inject() concurrently, at most
\* one configuration file says first-process=1.
C18_FirstProcessOnceConcurrently ==
    Cardinality({q \in Pids : config[q] = "1"}) <= 1

\* ---------------------------------------------------------------- C13
\* the regions a dump is to stream: committed, of type image, mapped or private
Streamed(r) == r.committed /\ r.type \in {"image", "mapped", "private"}
ByteRange(i) == <<Base(regions, i), PageSize * regions[i].pages>>
Candidates == [i \in DOMAIN regions |-> [range |-> ByteRange(i), keep |-> Streamed(regions[i])]]
Keep(c) == c.keep
Expected == [j \in DOMAIN SelectSeq(Candidates, Keep) |-> SelectSeq(Candidates, Keep)[j].range]

RECURSIVE Bytes(_)
Bytes(ranges) == IF ranges = <<>> THEN 0 ELSE Head(ranges)[2] + Bytes(Tail(ranges))

\* C13 as stated: a completed dump has streamed exactly the byte ranges of
\* the committed image/mapped/private regions, each once, lowest first, and
\* as many bytes as these regions hold.
C13_StreamsCommittedRegions ==
    dpc = "done" => (sent = Expected /\ Bytes(sent) = Bytes(Expected))

\* C13 (amended): a completed dump in which no region query, read or send
\* failed has streamed exactly the byte ranges of the committed
\* image/mapped/private regions, each once, lowest first, and as many bytes
\* as these regions hold; any dump streams only bytes of such regions, no
\* byte twice, in increasing address order.
C13_StreamsCommittedRegionsIfNoFault ==
    /\ (dpc = "done" /\ faults = {}) =>
          (sent = Expected /\ Bytes(sent) = Bytes(Expected))
    /\ \A j \in DOMAIN sent :
          /\ Streamed(regions[RegionAt(regions, sent[j][1])])
          /\ sent[j][1] + sent[j][2] = End(regions, RegionAt(regions, sent[j][1]))
          /\ j > 1 => sent[j - 1][1] + sent[j - 1][2] <= sent[j][1]

\* two regions streamed around one that is skipped
C13_Witness ==
    /\ dpc = "done" /\ faults = {}
    /\ Len(sent) = 2
    /\ \E i \in DOMAIN regions : ~Streamed(regions[i])

\* ---------------------------------------------------------------- C14
QueryFailedAt(a) == <<"VirtualQueryEx", a>> \in faults
FaultIn(i) ==
    \E f \in faults : Base(regions, i) <= f[2] /\ f[2] < End(regions, i)

C15_SinkClosedOnce ==
    (dpc \in {"done", "raised"} /\ nf # "none") => (nf = "closed" /\ nfCloses = 1)

\* ---------------------------------------------------------------- C21
\* C21: once a Process driven by execute(), open() and close() calls has
\* been destroyed, every OS handle it acquired, by open() or by a successful
\* execute(), has been closed exactly once.
C21_EveryHandleClosedOnce ==
    \A p \in Procs :
        destroyed[p] =>
            \A h \in AcquiredBy(p) :
                osHandles[h].closes = 1 /\ osHandles[h].state = "closed"

\* ---------------------------------------------------------------- C22
\* how far one turn of the loop moves the cursor
Advance ==
    IF <<"VirtualQueryEx", mem>> \in faults' \ faults THEN PageSize
    ELSE IF ~Streamed(regions[RegionAt(regions, mem)]) THEN PageSize
    ELSE RegionSize(regions, mem)

CursorAdvances ==
    [][\A p \in Tested :
          (dpc = "walk" /\ DumpStep(p) /\ dpc' = "walk") =>
              (mem' = mem + Advance /\ mem' > mem)]_vars

\* A call never goes back to "idle" once its walk has begun, so a walk ends
\* exactly when the call is again and again found outside "walk".

====
